---- MODULE Spec2Model ----
(***************************************************************************)
(* Husqvarna Automower BLE integration: the polling coordinator            *)
(* (coordinator.py), the lawn-mower entity and its state derivation        *)
(* (lawn_mower.py, entity.py).                                             *)
(*                                                                         *)
(* Python values are modelled as strings; Python's None is the string      *)
(* "None".  A dict is a function from its keys to values; the coordinator  *)
(* attribute `data`, which is None until a poll has returned, is NoneData  *)
(* while it is None.  Time is counted in minutes.                          *)
(***************************************************************************)
EXTENDS Integers, Sequences, FiniteSets, TLC

\* ------------------------------------------------------------------ bounds
\* The clock stops at MaxTime minutes.
MaxTime == 3
\* At most MaxPolls runs of _async_update_data.
MaxPolls == 2
\* At most MaxCommands commands are recorded as sent to the mower.
MaxCommands == 2
\* The clock of the scheduled polls stops at MaxClock minutes.
MaxClock == 13

\* --------------------------------------------------------------- constants
None == "None"
\* _last_successful_update while it is None
NoTime == 0 - 1
\* timedelta(minutes=12) in HusqvarnaAutomowerBleEntity.available
AvailableWindow == 12
\* timedelta(minutes=10) in AutomowerSensorEntity.available
SensorWindow == 10
\* SCAN_INTERVAL = timedelta(seconds=300), in minutes
SCAN_INTERVAL == 5

\* Members of the library enums the entity compares against.
MowerState ==
  {"OFF", "WAIT_FOR_SAFETYPIN", "STOPPED", "FATAL_ERROR", "PENDING_START",
   "PAUSED", "IN_OPERATION", "RESTRICTED", "ERROR"}
MowerActivity ==
  {"NONE", "CHARGING", "GOING_OUT", "MOWING", "GOING_HOME", "PARKED",
   "STOPPED_IN_GARDEN"}
\* The host framework's activity values used by _get_activity.
LawnMowerActivity == {"PAUSED", "ERROR", "DOCKED", "MOWING", "RETURNING"}

\* ReadOrder with the mode and the state read in the other order.
ReadOrder_swapped ==
  << "battery_level", "is_charging", "state", "mode", "activity", "error",
     "next_start_time", "statistics" >>

\* ReadOrder without the read of the error.
ReadOrder_without_error ==
  << "battery_level", "is_charging", "mode", "state", "activity",
     "next_start_time", "statistics" >>

\* The keys _async_update_data stores, in the order of its reads, and the
\* library call that supplies each.
ReadOrder ==
  << "battery_level", "is_charging", "mode", "state", "activity", "error",
     "next_start_time", "statistics" >>
StatKeys == {"totalRunningTime", "totalCuttingTime"}
DataKeys ==
  {"battery_level", "is_charging", "mode", "state", "activity", "error",
   "next_start_time"} \cup StatKeys

\* What the device may answer to each read during a poll.
DeviceStates == {"PAUSED", "IN_OPERATION", None}
DeviceActivities == {"MOWING", None}
ReadValues(key) ==
  CASE key = "battery_level" -> {"87"}
    [] key = "is_charging" -> {"False"}
    [] key = "mode" -> {"AUTO"}
    [] key = "state" -> DeviceStates
    [] key = "activity" -> DeviceActivities
    [] key = "error" -> {"NO_ERROR"}
    [] key = "next_start_time" -> {None}
    [] OTHER -> {"0"}
Statistics == [k \in StatKeys |-> "0"]

NoneData == [is_none |-> TRUE]
EmptyDict == [k \in {} |-> None]

\* The exceptions the BLE library raises.
BleErrors == {"TimeoutError", "BleakError"}

VARIABLES
  now,                      \* datetime.now(), minutes
  is_connected,             \* mower.is_connected()
  pc,                       \* position of the running poll, "idle" between polls
  read_index,               \* index in ReadOrder of the next read
  data,                     \* the local dict of _async_update_data
  coordinator_data,         \* coordinator.data
  last_successful_update,   \* coordinator._last_successful_update
  last_update_success,      \* coordinator.last_update_success
  result,                   \* how the latest poll ended
  prev_result,              \* how the poll before the latest ended
  returned,                 \* the dict the latest poll returned
  calls,                    \* the latest poll's calls and their outcomes
  start_stamp,              \* _last_successful_update at the poll's start
  polls,                    \* polls started
  commands,                 \* commands invoked on the mower by UI actions
  ui_action,                \* the latest UI action
  ui_log,                   \* the latest error a UI action logged
  entity_added,             \* async_added_to_hass has run
  attr_activity,            \* AutomowerLawnMower._attr_activity
  attr_available,           \* AutomowerLawnMower._attr_available
  state_available,          \* `available` as of the entity's latest state write
  sensor_read               \* the latest read of a sensor's `state`

vars ==
  << now, is_connected, pc, read_index, data, coordinator_data,
     last_successful_update, last_update_success, result, prev_result,
     returned, calls, start_stamp, polls, commands, ui_action, ui_log,
     entity_added, attr_activity, attr_available, state_available,
     sensor_read >>

pollVars ==
  << is_connected, pc, read_index, data, coordinator_data,
     last_successful_update, last_update_success, result, prev_result,
     returned, calls, start_stamp, polls >>
uiVars == << commands, ui_action, ui_log >>
entityVars ==
  << entity_added, attr_activity, attr_available, state_available >>
sensorVars == << sensor_read >>

\* --------------------------------------------------------- lawn_mower.py
\* _get_activity without its final `return LawnMowerActivity.ERROR`.
_get_activity_no_final_return(cdata) ==
  IF cdata = NoneData THEN None
  ELSE
    LET state == cdata["state"]
        activity == cdata["activity"]
    IN  IF state = None \/ activity = None THEN None
        ELSE IF state = "PAUSED" THEN "PAUSED"
        ELSE IF state \in {"STOPPED", "OFF", "WAIT_FOR_SAFETYPIN"} THEN "ERROR"
        ELSE IF state = "PENDING_START" /\ activity = "NONE" THEN "ERROR"
        ELSE IF state \in {"RESTRICTED", "IN_OPERATION", "PENDING_START"} THEN
          IF activity \in {"CHARGING", "PARKED", "NONE"} THEN "DOCKED"
          ELSE IF activity \in {"GOING_OUT", "MOWING"} THEN "MOWING"
          ELSE IF activity = "GOING_HOME" THEN "RETURNING"
          ELSE None
        ELSE None

\* _get_activity without the PENDING_START / NONE special case.
_get_activity_no_pending_start_case(cdata) ==
  IF cdata = NoneData THEN None
  ELSE
    LET state == cdata["state"]
        activity == cdata["activity"]
    IN  IF state = None \/ activity = None THEN None
        ELSE IF state = "PAUSED" THEN "PAUSED"
        ELSE IF state \in {"STOPPED", "OFF", "WAIT_FOR_SAFETYPIN"} THEN "ERROR"
        ELSE IF state \in {"RESTRICTED", "IN_OPERATION", "PENDING_START"} THEN
          IF activity \in {"CHARGING", "PARKED", "NONE"} THEN "DOCKED"
          ELSE IF activity \in {"GOING_OUT", "MOWING"} THEN "MOWING"
          ELSE IF activity = "GOING_HOME" THEN "RETURNING"
          ELSE "ERROR"
        ELSE "ERROR"

\* _get_activity looking at the activity before the stopped states.
_get_activity_activity_first(cdata) ==
  IF cdata = NoneData THEN None
  ELSE
    LET state == cdata["state"]
        activity == cdata["activity"]
    IN  IF state = None \/ activity = None THEN None
        ELSE IF state = "PAUSED" THEN "PAUSED"
        ELSE IF activity \in {"GOING_OUT", "MOWING"} THEN "MOWING"
        ELSE IF activity = "GOING_HOME" THEN "RETURNING"
        ELSE IF state \in {"STOPPED", "OFF", "WAIT_FOR_SAFETYPIN"} THEN "ERROR"
        ELSE IF state = "PENDING_START" /\ activity = "NONE" THEN "ERROR"
        ELSE IF state \in {"RESTRICTED", "IN_OPERATION", "PENDING_START"} THEN
          IF activity \in {"CHARGING", "PARKED", "NONE"} THEN "DOCKED"
          ELSE "ERROR"
        ELSE "ERROR"

\* _get_activity taking STOPPED_IN_GARDEN for a docked activity.
_get_activity_stopped_in_garden_docked(cdata) ==
  IF cdata = NoneData THEN None
  ELSE
    LET state == cdata["state"]
        activity == cdata["activity"]
    IN  IF state = None \/ activity = None THEN None
        ELSE IF state = "PAUSED" THEN "PAUSED"
        ELSE IF state \in {"STOPPED", "OFF", "WAIT_FOR_SAFETYPIN"} THEN "ERROR"
        ELSE IF state = "PENDING_START" /\ activity = "NONE" THEN "ERROR"
        ELSE IF state \in {"RESTRICTED", "IN_OPERATION", "PENDING_START"} THEN
          IF activity \in {"CHARGING", "PARKED", "NONE", "STOPPED_IN_GARDEN"}
            THEN "DOCKED"
          ELSE IF activity \in {"GOING_OUT", "MOWING"} THEN "MOWING"
          ELSE IF activity = "GOING_HOME" THEN "RETURNING"
          ELSE "ERROR"
        ELSE "ERROR"

_get_activity(cdata) ==
  IF cdata = NoneData THEN None
  ELSE
    LET state == cdata["state"]
        activity == cdata["activity"]
    IN  IF state = None \/ activity = None THEN None
        ELSE IF state = "PAUSED" THEN "PAUSED"
        ELSE IF state \in {"STOPPED", "OFF", "WAIT_FOR_SAFETYPIN"} THEN "ERROR"
        ELSE IF state = "PENDING_START" /\ activity = "NONE" THEN "ERROR"
        ELSE IF state \in {"RESTRICTED", "IN_OPERATION", "PENDING_START"} THEN
          IF activity \in {"CHARGING", "PARKED", "NONE"} THEN "DOCKED"
          ELSE IF activity \in {"GOING_OUT", "MOWING"} THEN "MOWING"
          ELSE IF activity = "GOING_HOME" THEN "RETURNING"
          ELSE "ERROR"
        ELSE "ERROR"

\* ------------------------------------------------------------- entity.py
\* `available` with the window's end included.
available_inclusive(last, t) ==
  IF last = NoTime THEN FALSE ELSE t - last <= AvailableWindow

available(last, t) ==
  IF last = NoTime THEN FALSE ELSE t - last < AvailableWindow

\* The entity's listener, run by the coordinator after a refresh.  The base
\* class's handler writes the entity's state, which reads the `available`
\* property; the entity's class overrides that property (entity.py), so the
\* write does not look at _attr_available.
_handle_coordinator_update(cdata, last) ==
  /\ attr_activity' = _get_activity(cdata)
  /\ attr_available' = (_get_activity(cdata) # None /\ available(last, now))
  /\ state_available' = available(last, now)
  /\ UNCHANGED entity_added

\* DataUpdateCoordinator notifies its listeners after a refresh unless the
\* refresh failed and the one before it had failed too.
async_update_listeners(notify, cdata, last) ==
  IF notify /\ entity_added
    THEN _handle_coordinator_update(cdata, last)
    ELSE UNCHANGED entityVars

async_added_to_hass ==
  /\ ~entity_added
  /\ entity_added' = TRUE
  /\ attr_activity' = _get_activity(coordinator_data)
  /\ attr_available' =
       (_get_activity(coordinator_data) # None
        /\ available(last_successful_update, now))
  /\ state_available' = available(last_successful_update, now)
  /\ UNCHANGED << now, pollVars, uiVars, sensorVars >>

\* ---------------------------------------------------------- coordinator.py
\* One entry of `calls`.
Call(name, outcome) == [name |-> name, outcome |-> outcome]

\* The poll reading without ever reconnecting.
NeedsFindDevice_never(connected) == FALSE

\* The poll reconnecting whether or not the mower is connected.
NeedsFindDevice_always(connected) == TRUE

\* `if not self.mower.is_connected()`
NeedsFindDevice(connected) == ~connected

\* `except (TimeoutError, BleakError)` of _async_find_device
ConnectExcept == {"TimeoutError", "BleakError"}
\* The handler of _async_update_data catching TimeoutError alone.
UpdateExcept_timeout_only == {"TimeoutError"}

\* `except (TimeoutError, BleakError)` of _async_update_data
UpdateExcept == {"TimeoutError", "BleakError"}

\* What leaves _async_update_data when exc is raised inside its try block.
Surface(exc) == IF exc \in UpdateExcept THEN "UpdateFailed" ELSE exc

\* The poll returning right after its reads.
StepAfter_no_disconnect(step) ==
  CASE step = "is_connected" -> "read"
    [] step = "find_device" -> "connect"
    [] step = "connect" -> "read"
    [] step = "read" -> "return"
    [] step = "disconnect" -> "return"

\* The step that follows a completed step of the poll.
StepAfter(step) ==
  CASE step = "is_connected" -> "read"
    [] step = "find_device" -> "connect"
    [] step = "connect" -> "read"
    [] step = "read" -> "disconnect"
    [] step = "disconnect" -> "return"

\* The poll raises exc; the coordinator keeps its data and marks the
\* refresh failed.
PollRaises(exc, connected) ==
  /\ result' = exc
  /\ pc' = "idle"
  /\ is_connected' = connected
  /\ last_update_success' = FALSE
  /\ async_update_listeners(last_update_success, coordinator_data,
                            last_successful_update)
  /\ UNCHANGED << read_index, data, coordinator_data, last_successful_update,
                  returned >>

\* The poll goes on to its next step.
PollContinues ==
  UNCHANGED << coordinator_data, last_update_success, result, returned,
               entityVars >>

\* _async_update_data up to its first await.
BeginPoll ==
  /\ pc = "idle"
  /\ polls' = polls + 1
  /\ data' = EmptyDict
  /\ calls' = << Call("is_connected", IF is_connected THEN "True" ELSE "False") >>
  /\ start_stamp' = last_successful_update
  /\ prev_result' = result
  /\ result' = "pending"
  /\ returned' = NoneData
  /\ read_index' = 1
  /\ pc' = IF NeedsFindDevice(is_connected)
             THEN "find_device" ELSE StepAfter("is_connected")
  /\ UNCHANGED << now, is_connected, coordinator_data, last_successful_update,
                  last_update_success, uiVars, sensorVars, entityVars >>

\* A refresh, at any time between polls.
PollStart ==
  /\ polls < MaxPolls
  /\ BeginPoll

\* _async_find_device: close stale connections, then look the device up.
FindDevice ==
  /\ pc = "find_device"
  /\ \E device \in {"device", None} :
       /\ calls' = calls \o << Call("close_stale_connections_by_address", "ok"),
                               Call("async_ble_device_from_address", device) >>
       /\ IF device = None
            THEN PollRaises(Surface("UpdateFailed"), is_connected)
            ELSE /\ pc' = StepAfter("find_device")
                 /\ UNCHANGED << is_connected, read_index, data,
                                 last_successful_update >>
                 /\ PollContinues
  /\ UNCHANGED << now, prev_result, start_stamp, polls, uiVars, sensorVars >>

\* _async_find_device: mower.connect(device).
Connect ==
  /\ pc = "connect"
  /\ \E outcome \in {"True", "False"} \cup BleErrors :
       /\ calls' = Append(calls, Call("connect", outcome))
       /\ CASE outcome = "True" ->
                 /\ is_connected' = TRUE
                 /\ pc' = StepAfter("connect")
                 /\ UNCHANGED << read_index, data, last_successful_update >>
                 /\ PollContinues
            [] outcome = "False" -> PollRaises(Surface("UpdateFailed"), FALSE)
            [] OTHER ->
                 PollRaises(Surface(IF outcome \in ConnectExcept
                                      THEN "UpdateFailed" ELSE outcome), FALSE)
  /\ UNCHANGED << now, prev_result, start_stamp, polls, uiVars, sensorVars >>

\* One of the eight reads; the last one is followed by the timestamp.
Read ==
  /\ pc = "read"
  /\ LET key == ReadOrder[read_index] IN
       \/ \E value \in ReadValues(key) :
            /\ calls' = Append(calls, Call(key, "ok"))
            /\ IF read_index = Len(ReadOrder)
                 THEN /\ data' = Statistics @@ data
                      /\ last_successful_update' = now
                      /\ pc' = StepAfter("read")
                      /\ read_index' = read_index
                 ELSE /\ data' = (key :> value) @@ data
                      /\ read_index' = read_index + 1
                      /\ UNCHANGED << pc, last_successful_update >>
            /\ UNCHANGED is_connected
            /\ PollContinues
       \/ \E exc \in BleErrors, connected \in {is_connected, FALSE} :
            /\ calls' = Append(calls, Call(key, exc))
            /\ PollRaises(Surface(exc), connected)
  /\ UNCHANGED << now, prev_result, start_stamp, polls, uiVars, sensorVars >>

\* mower.disconnect(): when it returns the link is closed; when it raises
\* the link may or may not still be up.
Disconnect ==
  /\ pc = "disconnect"
  /\ \/ /\ calls' = Append(calls, Call("disconnect", "ok"))
        /\ is_connected' = FALSE
        /\ pc' = StepAfter("disconnect")
        /\ UNCHANGED << read_index, data, last_successful_update >>
        /\ PollContinues
     \/ \E exc \in BleErrors, connected \in {is_connected, FALSE} :
          /\ calls' = Append(calls, Call("disconnect", exc))
          /\ PollRaises(Surface(exc), connected)
  /\ UNCHANGED << now, prev_result, start_stamp, polls, uiVars, sensorVars >>

\* `return data`; the coordinator stores the dict and notifies its listeners.
Return ==
  /\ pc = "return"
  /\ result' = "data"
  /\ returned' = data
  /\ pc' = "idle"
  /\ coordinator_data' = data
  /\ last_update_success' = TRUE
  /\ async_update_listeners(TRUE, data, last_successful_update)
  /\ UNCHANGED << now, is_connected, read_index, data, last_successful_update,
                  prev_result, calls, start_stamp, polls, uiVars, sensorVars >>

\* The BLE link drops while no poll is running.
LinkLost ==
  /\ pc = "idle"
  /\ is_connected
  /\ is_connected' = FALSE
  /\ UNCHANGED << now, pc, read_index, data, coordinator_data,
                  last_successful_update, last_update_success, result,
                  prev_result, returned, calls, start_stamp, polls, uiVars,
                  sensorVars,
                  entityVars >>

\* A minute passes; a poll takes less than a minute.
Tick ==
  /\ pc = "idle"
  /\ now < MaxTime
  /\ now' = now + 1
  /\ UNCHANGED << pollVars, uiVars, sensorVars, entityVars >>

\* ------------------------------------------------- lawn_mower.py: UI actions
\* The attributes of a HusqvarnaCoordinator: those its class defines and those
\* of DataUpdateCoordinator that the entities use.
CoordinatorAttributes ==
  {"address", "manufacturer", "model", "mower", "channel_id", "serial",
   "_last_successful_update", "async_shutdown", "_async_find_device",
   "_async_update_data", "hass", "data", "last_update_success",
   "async_request_refresh"}

\* The body of a UI action: `await self.coordinator.async_execute_command(
\* self.coordinator.mower.<command>)` inside `try ... except Exception`, which
\* logs `message` with the exception.  Looking up an attribute the
\* coordinator does not have raises AttributeError before anything is called.
UiAction(action, command, message) ==
  /\ ui_action' = action
  /\ IF "async_execute_command" \in CoordinatorAttributes
       THEN /\ Len(commands) < MaxCommands
            /\ commands' =
                 IF action = "start_mowing" /\ attr_activity = "DOCKED"
                   THEN commands \o << command, "mower_override" >>
                   ELSE Append(commands, command)
            /\ attr_activity' = _get_activity(coordinator_data)
            /\ state_available' = available(last_successful_update, now)
            /\ UNCHANGED << ui_log, entity_added, attr_available >>
       ELSE /\ ui_log' = << message, "AttributeError" >>
            /\ UNCHANGED << commands, entityVars >>
  /\ UNCHANGED << now, pollVars, sensorVars >>

\* The services act on an entity that has been added.
async_start_mowing ==
  /\ entity_added
  /\ UiAction("start_mowing", "mower_resume", "Failed to start mowing")
async_dock ==
  /\ entity_added
  /\ UiAction("dock", "mower_park", "Failed to dock mower")
async_pause ==
  /\ entity_added
  /\ UiAction("pause", "mower_pause", "Failed to pause mower")
async_park_indefinitely ==
  /\ entity_added
  /\ UiAction("park_indefinitely", "mower_park_indefinitely",
              "Failed to park mower indefinitely")
async_resume_schedule ==
  /\ entity_added
  /\ UiAction("resume_schedule", "mower_auto",
              "Failed to resume mower schedule")

\* --------------------------------------------------------------- sensor.py
\* The keys of the sensor descriptions: the seven fields of a poll, the
\* statistics the mower reported and one statistic it did not report.
SensorKeys == DataKeys \cup {"cuttingBladeUsageTime"}

\* The sensor's `available` with the window's end included.
sensor_available_inclusive(last, t) ==
  IF last = NoTime THEN FALSE ELSE t - last <= SensorWindow

\* AutomowerSensorEntity.available
sensor_available(last, t) ==
  IF last = NoTime THEN FALSE ELSE t - last < SensorWindow

\* AutomowerSensorEntity.state: `self.coordinator.data[key]` inside
\* `try ... except KeyError`.  Subscripting None raises TypeError, which the
\* handler does not catch.
sensor_state(key, cdata) ==
  IF cdata = NoneData
    THEN [raised |-> "TypeError", value |-> None, logged |-> FALSE]
  ELSE IF key \in DOMAIN cdata
    THEN [raised |-> None, value |-> cdata[key], logged |-> FALSE]
  ELSE [raised |-> None, value |-> None, logged |-> TRUE]

NoRead == [key |-> None, raised |-> None, value |-> None, logged |-> FALSE]

\* The state of one of the sensors is read.
SensorStateRead ==
  /\ \E key \in SensorKeys :
       sensor_read' = [key |-> key] @@ sensor_state(key, coordinator_data)
  /\ UNCHANGED << now, pollVars, uiVars, entityVars >>

\* ------------------------------------------------------------ the system
Init ==
  /\ now = 0
  /\ is_connected \in BOOLEAN
  /\ pc = "idle"
  /\ read_index = 1
  /\ data = EmptyDict
  /\ coordinator_data = NoneData
  /\ last_successful_update = NoTime
  /\ last_update_success = TRUE
  /\ result = "none"
  /\ prev_result = "none"
  /\ returned = NoneData
  /\ calls = << >>
  /\ start_stamp = NoTime
  /\ polls = 0
  /\ commands = << >>
  /\ ui_action = ""
  /\ ui_log = << >>
  /\ entity_added = FALSE
  /\ attr_activity = None
  /\ attr_available = FALSE
  /\ state_available = FALSE
  /\ sensor_read = NoRead

Next ==
  \/ PollStart
  \/ FindDevice
  \/ Connect
  \/ Read
  \/ Disconnect
  \/ Return
  \/ LinkLost
  \/ Tick
  \/ async_added_to_hass
  \/ async_start_mowing
  \/ async_dock
  \/ async_pause
  \/ async_park_indefinitely
  \/ async_resume_schedule

Spec == Init /\ [][Next]_vars

\* ------------------------------------------- the state derivation on its own
\* The dict of a poll in which the device answered `state` and `activity`.
PolledData(state, activity) ==
  Statistics @@
  [battery_level |-> "87", is_charging |-> "False", mode |-> "AUTO",
   state |-> state, activity |-> activity, error |-> "NO_ERROR",
   next_start_time |-> None]

\* The calls of a poll that found the mower disconnected and returned data.
ReturningCalls ==
  << Call("is_connected", "False"),
     Call("close_stale_connections_by_address", "ok"),
     Call("async_ble_device_from_address", "device"),
     Call("connect", "True") >>
  \o [i \in 1..Len(ReadOrder) |-> Call(ReadOrder[i], "ok")]
  \o << Call("disconnect", "ok") >>

\* Either no poll has run, or one poll has returned any pair of answers the
\* library's types allow.
InitActivity ==
  \/ Init /\ ~is_connected
  \/ \E state \in MowerState \cup {None}, activity \in MowerActivity \cup {None} :
       /\ now = 0
       /\ is_connected = FALSE
       /\ pc = "idle"
       /\ read_index = Len(ReadOrder)
       /\ data = PolledData(state, activity)
       /\ coordinator_data = PolledData(state, activity)
       /\ last_successful_update = 0
       /\ last_update_success = TRUE
       /\ result = "data"
       /\ prev_result = "none"
       /\ returned = PolledData(state, activity)
       /\ calls = ReturningCalls
       /\ start_stamp = NoTime
       /\ polls = 1
       /\ commands = << >>
       /\ ui_action = ""
       /\ ui_log = << >>
       /\ entity_added = FALSE
       /\ attr_activity = None
       /\ attr_available = FALSE
       /\ state_available = FALSE
       /\ sensor_read = NoRead
  /\ state_available = FALSE
  /\ sensor_read = NoRead

NextActivity ==
  \/ Tick
  \/ SensorStateRead
  \/ async_added_to_hass
  \/ async_start_mowing
  \/ async_dock
  \/ async_pause
  \/ async_park_indefinitely
  \/ async_resume_schedule

SpecActivity == InitActivity /\ [][NextActivity]_vars

\* ------------------------------------------------ polls on the refresh timer
\* The coordinator refreshes at set-up and every SCAN_INTERVAL after that.
ScheduledPollStart ==
  /\ now = polls * SCAN_INTERVAL
  /\ BeginPoll

\* A minute passes, once the refresh that is due has run.
TickClock ==
  /\ pc = "idle"
  /\ now < polls * SCAN_INTERVAL
  /\ now < MaxClock
  /\ now' = now + 1
  /\ UNCHANGED << pollVars, uiVars, sensorVars, entityVars >>

NextClock ==
  \/ ScheduledPollStart
  \/ FindDevice
  \/ Connect
  \/ Read
  \/ Disconnect
  \/ Return
  \/ LinkLost
  \/ TickClock
  \/ async_added_to_hass

SpecClock == Init /\ [][NextClock]_vars

\* ================================================================ claims
\* Helpers: the calls of the latest poll.
CallIndices == 1..Len(calls)
ReadNames ==
  {"battery_level", "is_charging", "mode", "state", "activity", "error",
   "next_start_time", "statistics"}
IsRead(i) == calls[i].name \in ReadNames
ReadsIssued == SelectSeq(calls, LAMBDA c : c.name \in ReadNames)
Raised(i) == calls[i].outcome \in {"TimeoutError", "BleakError"}
DeviceNotFound(i) ==
  calls[i].name = "async_ble_device_from_address" /\ calls[i].outcome = None
ConnectRefused(i) == calls[i].name = "connect" /\ calls[i].outcome = "False"
ConnectSucceeded(i) == calls[i].name = "connect" /\ calls[i].outcome = "True"
StepFailed(i) == Raised(i) \/ DeviceNotFound(i) \/ ConnectRefused(i)
PollEnded == pc = "idle" /\ polls > 0

\* C1: when the connect attempt, one of the eight reads or the final
\* disconnect raises TimeoutError or BleakError, the poll ends by raising
\* UpdateFailed and returns no data; no poll ends with a TimeoutError or a
\* BleakError.
C1_BleErrorsSurfaceAsUpdateFailed ==
  /\ result \notin {"TimeoutError", "BleakError"}
  /\ \A i \in CallIndices :
       (Raised(i) /\ calls[i].name \in ReadNames \cup {"connect", "disconnect"})
         => /\ pc = "idle"
            /\ result = "UpdateFailed"
            /\ returned = NoneData

\* C1 witness: the final disconnect raised BleakError and the poll ended with
\* UpdateFailed.
C1_Witness ==
  /\ PollEnded
  /\ Len(calls) > 0
  /\ calls[Len(calls)] = Call("disconnect", "BleakError")
  /\ result = "UpdateFailed"

\* C2: a read is issued only if the mower reported connected at the start of
\* the poll or a connect succeeded earlier in the same poll; when the device
\* is not found, or connect returns false or raises, the poll fails with
\* UpdateFailed having issued no read.
C2_ConnectBeforeRead ==
  /\ \A i \in CallIndices :
       IsRead(i) =>
         \/ calls[1] = Call("is_connected", "True")
         \/ \E j \in 1..(i - 1) : ConnectSucceeded(j)
  /\ \A i \in CallIndices :
       (DeviceNotFound(i) \/ ConnectRefused(i)
        \/ (calls[i].name = "connect" /\ Raised(i)))
         => /\ pc = "idle"
            /\ result = "UpdateFailed"
            /\ Len(ReadsIssued) = 0

\* C2 witness: connect returned false and the poll failed without a read.
C2_Witness ==
  /\ PollEnded
  /\ \E i \in CallIndices : ConnectRefused(i)
  /\ result = "UpdateFailed"
  /\ Len(ReadsIssued) = 0

\* C3: once a UI action of the lawn-mower entity has run, the library call it
\* stands for has been invoked on the mower: start_mowing mower_resume, dock
\* mower_park, pause mower_pause, park_indefinitely mower_park_indefinitely,
\* resume_schedule mower_auto.
C3_LibraryCall ==
  [start_mowing |-> "mower_resume", dock |-> "mower_park",
   pause |-> "mower_pause", park_indefinitely |-> "mower_park_indefinitely",
   resume_schedule |-> "mower_auto"]
C3_UiActionsInvokeLibrary ==
  ui_action # "" =>
    \E i \in 1..Len(commands) : commands[i] = C3_LibraryCall[ui_action]

\* Helpers: the pair the state derivation reads.
HasData == coordinator_data # NoneData
StateRead == IF HasData THEN coordinator_data["state"] ELSE None
ActivityRead == IF HasData THEN coordinator_data["activity"] ELSE None
OperatingStates == {"RESTRICTED", "IN_OPERATION", "PENDING_START"}

\* C4: _get_activity returns None exactly when the coordinator data is None
\* or the state or the activity is None; for every other pair it returns one
\* of PAUSED, ERROR, DOCKED, MOWING, RETURNING.
C4_ActivityTotal ==
  entity_added =>
    /\ attr_activity = None
         <=> (~HasData \/ StateRead = None \/ ActivityRead = None)
    /\ attr_activity # None
         => attr_activity \in {"PAUSED", "ERROR", "DOCKED", "MOWING", "RETURNING"}

\* C4 witness: a pair no branch names (FATAL_ERROR, STOPPED_IN_GARDEN) has
\* been derived.
C4_Witness ==
  /\ entity_added
  /\ StateRead = "FATAL_ERROR"
  /\ ActivityRead = "STOPPED_IN_GARDEN"
  /\ attr_activity = "ERROR"

\* C5: PENDING_START with activity NONE yields ERROR, never DOCKED;
\* RESTRICTED or IN_OPERATION with NONE yields DOCKED; PENDING_START with
\* CHARGING or PARKED yields DOCKED.
C5_PendingStartEdgeCase ==
  entity_added =>
    /\ (StateRead = "PENDING_START" /\ ActivityRead = "NONE")
         => attr_activity = "ERROR"
    /\ (StateRead \in {"RESTRICTED", "IN_OPERATION"} /\ ActivityRead = "NONE")
         => attr_activity = "DOCKED"
    /\ (StateRead = "PENDING_START" /\ ActivityRead \in {"CHARGING", "PARKED"})
         => attr_activity = "DOCKED"

\* C5 witness: PENDING_START with NONE has been derived as ERROR.
C5_Witness ==
  /\ entity_added
  /\ StateRead = "PENDING_START"
  /\ ActivityRead = "NONE"
  /\ attr_activity = "ERROR"

\* C6: state PAUSED yields PAUSED for every activity that is not None, and
\* STOPPED, OFF and WAIT_FOR_SAFETYPIN yield ERROR for every activity that is
\* not None, MOWING and GOING_HOME included.
C6_StateBeforeActivity ==
  (entity_added /\ HasData /\ ActivityRead # None) =>
    /\ StateRead = "PAUSED" => attr_activity = "PAUSED"
    /\ StateRead \in {"STOPPED", "OFF", "WAIT_FOR_SAFETYPIN"}
         => attr_activity = "ERROR"

\* C6 witness: STOPPED with activity MOWING has been derived as ERROR.
C6_Witness ==
  /\ entity_added
  /\ StateRead = "STOPPED"
  /\ ActivityRead = "MOWING"
  /\ attr_activity = "ERROR"

\* C7: the derived activity is MOWING only for an operating state with
\* GOING_OUT or MOWING, RETURNING only for an operating state with GOING_HOME,
\* DOCKED only for an operating state with CHARGING, PARKED or NONE; every
\* pair of a state and an activity (neither None) outside these cases and
\* outside state PAUSED yields ERROR.
C7_ActivityCases ==
  entity_added =>
    /\ attr_activity = "MOWING"
         => StateRead \in OperatingStates
            /\ ActivityRead \in {"GOING_OUT", "MOWING"}
    /\ attr_activity = "RETURNING"
         => StateRead \in OperatingStates /\ ActivityRead = "GOING_HOME"
    /\ attr_activity = "DOCKED"
         => StateRead \in OperatingStates
            /\ ActivityRead \in {"CHARGING", "PARKED", "NONE"}
    /\ ( /\ HasData
         /\ StateRead \notin {None, "PAUSED"}
         /\ ActivityRead # None
         /\ ~( /\ StateRead \in OperatingStates
               /\ ActivityRead \in {"GOING_OUT", "MOWING", "GOING_HOME",
                                    "CHARGING", "PARKED", "NONE"} ) )
         => attr_activity = "ERROR"

\* C7 witness: an operating state with STOPPED_IN_GARDEN has been derived as
\* ERROR.
C7_Witness ==
  /\ entity_added
  /\ StateRead = "IN_OPERATION"
  /\ ActivityRead = "STOPPED_IN_GARDEN"
  /\ attr_activity = "ERROR"

\* C8: a poll makes at most one device lookup and at most one connect
\* attempt, issues its reads in the order battery_level, is_charging, mode,
\* state, activity, error, next_start_time, statistics, each at most once,
\* and issues nothing after a step has failed; the failure ends the poll
\* with UpdateFailed.
C8_Order ==
  << "battery_level", "is_charging", "mode", "state", "activity", "error",
     "next_start_time", "statistics" >>
C8_NoRetry ==
  /\ Cardinality({i \in CallIndices :
                    calls[i].name = "async_ble_device_from_address"}) <= 1
  /\ Cardinality({i \in CallIndices : calls[i].name = "connect"}) <= 1
  /\ Len(ReadsIssued) <= Len(C8_Order)
  /\ \A i \in 1..Len(ReadsIssued) : ReadsIssued[i].name = C8_Order[i]
  /\ \A i \in CallIndices :
       StepFailed(i)
         => /\ i = Len(calls)
            /\ pc = "idle"
            /\ result = "UpdateFailed"

\* C8 witness: the third read raised after two reads went through; the poll
\* ended there with UpdateFailed.
C8_Witness ==
  /\ PollEnded
  /\ Len(ReadsIssued) = 3
  /\ ReadsIssued[3] = Call("mode", "TimeoutError")
  /\ calls[Len(calls)] = Call("mode", "TimeoutError")
  /\ result = "UpdateFailed"

\* C9: a poll that ends by raising UpdateFailed leaves _last_successful_update
\* as it was when the poll started.
C9_FailedPollKeepsTimestamp ==
  (PollEnded /\ result = "UpdateFailed")
    => last_successful_update = start_stamp

\* C10: a poll that completes its eight reads calls mower.disconnect before
\* it returns; a poll that returned data leaves the mower disconnected, and
\* the poll after it closes stale connections, looks the device up and
\* connects before it reads.
C10_DisconnectThenReconnect ==
  /\ (pc \in {"idle", "return"}
      /\ \E i \in CallIndices : calls[i] = Call("statistics", "ok"))
       => \E j \in CallIndices : calls[j].name = "disconnect"
  /\ result = "data" => ~is_connected
  /\ prev_result = "data" =>
       /\ calls[1] = Call("is_connected", "False")
       /\ \A i \in CallIndices :
            IsRead(i) =>
              /\ i > 4
              /\ calls[2].name = "close_stale_connections_by_address"
              /\ calls[3].name = "async_ble_device_from_address"
              /\ ConnectSucceeded(4)

\* C10 witness: the poll after one that returned data has reconnected and
\* issued a read.
C10_Witness ==
  /\ prev_result = "data"
  /\ Len(calls) >= 5
  /\ ConnectSucceeded(4)
  /\ IsRead(5)

\* C11: mower.disconnect is called in a poll only after all eight reads
\* succeeded; a poll in which a read raises ends with UpdateFailed without
\* calling disconnect; a poll that finds the mower still connected issues
\* its reads without calling _async_find_device.
C11_DisconnectOnlyAfterReads ==
  /\ \A i \in CallIndices :
       calls[i].name = "disconnect"
         => /\ Len(ReadsIssued) = 8
            /\ \A j \in 1..8 : ReadsIssued[j].outcome = "ok"
            /\ \A j \in CallIndices : IsRead(j) => j < i
  /\ \A i \in CallIndices :
       (IsRead(i) /\ Raised(i))
         => /\ pc = "idle"
            /\ result = "UpdateFailed"
            /\ \A j \in CallIndices : calls[j].name # "disconnect"
  /\ (Len(calls) > 0 /\ calls[1] = Call("is_connected", "True"))
       => /\ \A j \in CallIndices :
               calls[j].name \notin {"close_stale_connections_by_address",
                                     "async_ble_device_from_address", "connect"}
          /\ Len(calls) > 1 => calls[2].name = "battery_level"

\* C11 witness: the first poll failed in a read before any timestamp was
\* written, the mower stayed connected, and the second poll went straight to
\* its reads.
C11_Witness ==
  /\ polls = 2
  /\ prev_result = "UpdateFailed"
  /\ last_successful_update = NoTime
  /\ Len(calls) = 2
  /\ calls[1] = Call("is_connected", "True")
  /\ calls[2] = Call("battery_level", "ok")

\* C12: a dict returned by a poll holds the seven keys battery_level,
\* is_charging, mode, state, activity, error, next_start_time and every entry
\* of the statistics; coordinator.data is None or such a complete dict.
C12_Keys ==
  {"battery_level", "is_charging", "mode", "state", "activity", "error",
   "next_start_time"}
C12_Complete(d) ==
  /\ C12_Keys \subseteq DOMAIN d
  /\ \A k \in DOMAIN Statistics : k \in DOMAIN d /\ d[k] = Statistics[k]
C12_NoPartialData ==
  /\ result = "data" => C12_Complete(returned)
  /\ returned # NoneData => C12_Complete(returned)
  /\ coordinator_data # NoneData => C12_Complete(coordinator_data)

\* C12 witness: a poll has returned and the coordinator holds its dict.
C12_Witness ==
  /\ PollEnded
  /\ result = "data"
  /\ coordinator_data = returned
  /\ C12_Complete(coordinator_data)

\* Helper: minutes since _last_successful_update was written.
SinceLastUpdate == now - last_successful_update

\* C13: the lawn-mower entity's `available` is false until a poll has
\* completed all its reads; from then on it is true exactly while less than
\* 12 minutes have passed since _last_successful_update, whether or not the
\* latest poll failed; the timestamp moves only in a poll that completed its
\* reads.
C13_AvailabilityWindow ==
  /\ available(last_successful_update, now)
       <=> (last_successful_update # NoTime /\ SinceLastUpdate < 12)
  /\ polls = 0 => ~available(last_successful_update, now)
  /\ last_successful_update # start_stamp
       => \E i \in CallIndices : calls[i] = Call("statistics", "ok")
  /\ (\A i \in CallIndices : calls[i] # Call("statistics", "ok"))
       => last_successful_update = start_stamp

\* C13 witness: the latest poll failed, 11 minutes after the last poll that
\* completed its reads, and the entity is still available.
C13_Witness ==
  /\ PollEnded
  /\ result = "UpdateFailed"
  /\ last_successful_update # NoTime
  /\ SinceLastUpdate = 11
  /\ available(last_successful_update, now)

\* C14: the sensors' window (10 minutes) is shorter than the lawn-mower
\* entity's (12 minutes) over the same timestamp: a sensor that is available
\* implies the lawn-mower entity is available, and with polls 5 minutes
\* apart a sensor is unavailable 10 minutes after the last successful update.
C14_SensorWindowShorter ==
  /\ sensor_available(last_successful_update, now)
       => available(last_successful_update, now)
  /\ sensor_available(last_successful_update, now)
       <=> (last_successful_update # NoTime /\ SinceLastUpdate < 10)
  /\ (last_successful_update # NoTime /\ SinceLastUpdate = 10)
       => ~sensor_available(last_successful_update, now)

\* C14 witness: two polls in a row failed; 10 minutes after the last
\* successful update the sensors are unavailable and the lawn-mower entity
\* is not.
C14_Witness ==
  /\ PollEnded
  /\ polls = 3
  /\ result = "UpdateFailed"
  /\ last_successful_update # NoTime
  /\ SinceLastUpdate = 10
  /\ ~sensor_available(last_successful_update, now)
  /\ available(last_successful_update, now)

\* C15: as of each state write after a coordinator update or after the
\* entity was added, the lawn-mower entity is available only if its derived
\* activity is not None; it is never reported available with activity None.
C15_AvailableNeedsActivity ==
  (entity_added /\ state_available) => attr_activity # None

\* C16: reading a sensor's state never raises, also before a poll has
\* returned data; it returns coordinator.data[key] when the key is there and
\* None, with an error logged, when it is not.
C16_SensorStateNeverRaises ==
  sensor_read.key # None =>
    /\ sensor_read.raised = None
    /\ IF HasData /\ sensor_read.key \in DOMAIN coordinator_data
         THEN sensor_read.value = coordinator_data[sensor_read.key]
         ELSE sensor_read.value = None

====
